---- MODULE Spec2Model ----
(***************************************************************************)
(* z5py/dataset.py: index-to-ROI resolution, the Dataset facade's          *)
(* __getitem__ / __setitem__, and the creation / decoding of the zarr and  *)
(* N5 sidecar metadata files.                                              *)
(***************************************************************************)
EXTENDS Integers, Sequences, FiniteSets, TLC

VARIABLES
    size, s, i, sres, ires,                       \* per-dimension reduction calls
    shape, index, item, pc, roi, engine, result, contents,   \* a Dataset and one access
    fs, requested, last                           \* sidecar files and creation calls

vars == <<size, s, i, sres, ires,
          shape, index, item, pc, roi, engine, result, contents,
          fs, requested, last>>

sliceVars  == <<size, s, i, sres, ires>>
accessVars == <<shape, index, item, pc, roi, engine, result, contents>>
createVars == <<fs, requested, last>>

-----------------------------------------------------------------------------
(* Bounds of the model. *)
MaxSize == 2        \* extents of a dimension range over 1..MaxSize
MaxDim == 2         \* datasets have 1..MaxDim dimensions
MaxLevel == 2       \* explicit compression levels range over 1..MaxLevel

\* indices reach one past every extent, on both sides
K == MaxSize + 1

-----------------------------------------------------------------------------
(* Python values. None is the empty tuple, a present value a 1-tuple. *)
None == <<>>
Some(v) == <<v>>
Val(o) == o[1]

NoExc == [type |-> "", msg |-> "", args |-> <<>>]
Exc(type, msg, args) == [type |-> type, msg |-> msg, args |-> args]

\* the outcome of one per-dimension reduction: a raised exception, or the
\* returned (begin, shape) pair
Raised(e) == [exc |-> e, begin |-> None, shape |-> 0]
Returned(b, n) == [exc |-> NoExc, begin |-> b, shape |-> n]
NotCalled == [exc |-> NoExc, begin |-> None, shape |-> -1]

slice(start, stop, step) == [k |-> "slice", start |-> start, stop |-> stop, step |-> step]
number(v) == [k |-> "number", start |-> Some(v), stop |-> None, step |-> None]
Ellipsis == [k |-> "ellipsis", start |-> None, stop |-> None, step |-> None]
\* any object that is no number, slice or ellipsis (a list, a string, ...)
Other == [k |-> "other", start |-> None, stop |-> None, step |-> None]

-----------------------------------------------------------------------------
(* slice_to_begin_shape, dataset.py 11-34 *)
slice_to_begin_shape_noclamp(sl, n) ==
    IF sl.step \notin {None, Some(1)}
    THEN Raised(Exc("ValueError", "Nontrivial steps are not supported", <<>>))
    ELSE IF sl.start # None
            /\ ~(-n <= Val(sl.start) /\ Val(sl.start) < 0)
            /\ (Val(sl.start) < -n \/ Val(sl.start) >= n)
    THEN Returned(None, 0)
    ELSE LET begin == IF sl.start = None THEN 0
                      ELSE IF -n <= Val(sl.start) /\ Val(sl.start) < 0
                           THEN n + Val(sl.start)
                           ELSE Val(sl.start)
             extent == IF sl.stop = None
                       THEN n - begin
                       ELSE IF Val(sl.stop) < 0
                            THEN (n + Val(sl.stop)) - begin
                            ELSE Val(sl.stop) - begin
         IN  IF extent < 1 THEN Returned(None, 0) ELSE Returned(Some(begin), extent)

slice_to_begin_shape(sl, n) ==
    IF sl.step \notin {None, Some(1)}
    THEN Raised(Exc("ValueError", "Nontrivial steps are not supported", <<>>))
    ELSE IF sl.start # None
            /\ ~(-n <= Val(sl.start) /\ Val(sl.start) < 0)
            /\ (Val(sl.start) < -n \/ Val(sl.start) >= n)
    THEN Returned(None, 0)
    ELSE LET begin == IF sl.start = None THEN 0
                      ELSE IF -n <= Val(sl.start) /\ Val(sl.start) < 0
                           THEN n + Val(sl.start)
                           ELSE Val(sl.start)
             extent == IF sl.stop = None \/ Val(sl.stop) > n
                       THEN n - begin
                       ELSE IF Val(sl.stop) < 0
                            THEN (n + Val(sl.stop)) - begin
                            ELSE Val(sl.stop) - begin
         IN  IF extent < 1 THEN Returned(None, 0) ELSE Returned(Some(begin), extent)

(* int_to_begin_shape, dataset.py 37-45 *)
int_to_begin_shape_lax(v, n) ==
    IF -n < v /\ v < 0 THEN Returned(Some(v + n), 1)
    ELSE IF v > n \/ v < -n
    THEN Raised(Exc("ValueError", "Index out of range", <<v, n - 1>>))
    ELSE Returned(Some(v), 1)

int_to_begin_shape(v, n) ==
    IF -n < v /\ v < 0 THEN Returned(Some(v + n), 1)
    ELSE IF v >= n \/ v < -n
    THEN Raised(Exc("ValueError", "Index out of range", <<v, n - 1>>))
    ELSE Returned(Some(v), 1)

-----------------------------------------------------------------------------
(* The inputs of the per-dimension calls. *)
Sizes == 1..MaxSize
IndexValues == (-(K + 1))..(K + 1)
OptIndexValues == {None} \cup {Some(v) : v \in IndexValues}
Steps == {None, Some(1), Some(2)}

AccessIdle ==
    /\ shape = <<1>>
    /\ index = [tuple |-> FALSE, items |-> <<number(0)>>]
    /\ item = [k |-> "other", ndim |-> 0]
    /\ pc = "off"
    /\ roi = [exc |-> NoExc, begin |-> <<>>, shape |-> <<>>]
    /\ engine = <<>>
    /\ result = [kind |-> "none", extents |-> <<>>, exc |-> NoExc]
    /\ contents = {}

CreateIdle ==
    /\ fs = <<>>
    /\ requested = <<>>
    /\ last = [op |-> "none", path |-> "", dtype |-> "", exc |-> NoExc,
               opts |-> [compression |-> None, level |-> None,
                         shuffle |-> None, codec |-> None]]

SliceIdle ==
    /\ size = 1
    /\ s = slice(None, None, None)
    /\ i = 0
    /\ sres = NotCalled
    /\ ires = NotCalled

InitSlice ==
    /\ size \in Sizes
    /\ s \in {slice(a, b, st) : a \in OptIndexValues, b \in OptIndexValues, st \in Steps}
    /\ i \in IndexValues
    /\ sres = NotCalled
    /\ ires = NotCalled
    /\ AccessIdle
    /\ CreateIdle

CallSlice ==
    /\ sres = NotCalled
    /\ sres' = slice_to_begin_shape(s, size)
    /\ UNCHANGED <<size, s, i, ires>>
    /\ UNCHANGED accessVars
    /\ UNCHANGED createVars

CallInt ==
    /\ ires = NotCalled
    /\ ires' = int_to_begin_shape(i, size)
    /\ UNCHANGED <<size, s, i, sres>>
    /\ UNCHANGED accessVars
    /\ UNCHANGED createVars

NextSlice == CallSlice \/ CallInt

SpecSlice == InitSlice /\ [][NextSlice]_vars

-----------------------------------------------------------------------------
UnitStep == s.step \in {None, Some(1)}

\* the positions the slice asks for, negative bounds counted from the end
Lo == IF s.start = None THEN 0
      ELSE IF Val(s.start) < 0 THEN size + Val(s.start) ELSE Val(s.start)
Hi == IF s.stop = None THEN size
      ELSE IF Val(s.stop) < 0 THEN size + Val(s.stop) ELSE Val(s.stop)
EntirelyOutside == {x \in 0..(size - 1) : Lo <= x /\ x < Hi} = {}

ScalarOutside == i >= size \/ i < -size

\* C3: with unit step a slice never raises, and yields extent 0 when the
\* requested range lies entirely outside [0, size); a scalar raises the
\* out-of-range error exactly when it is outside [-size, size).
C3_SliceScalarAsymmetry ==
    /\ (sres # NotCalled /\ UnitStep) =>
          /\ sres.exc = NoExc
          /\ EntirelyOutside => sres.shape = 0
    /\ ires # NotCalled =>
          /\ ScalarOutside => (ires.exc.type = "ValueError" /\ ires.exc.msg = "Index out of range")
          /\ ~ScalarOutside => ires.exc = NoExc

C3_Witness ==
    /\ sres # NotCalled /\ UnitStep /\ EntirelyOutside /\ sres.shape = 0
    /\ s.start # None /\ Val(s.start) >= size
    /\ ires # NotCalled /\ i >= size /\ ires.exc # NoExc

\* C9: a non-empty result of slice_to_begin_shape with unit step lies inside
\* the dimension: begin >= 0, extent >= 1 and begin + extent <= size.
C9_SliceInBounds ==
    (sres # NotCalled /\ UnitStep /\ sres.shape # 0) =>
        /\ sres.begin # None
        /\ Val(sres.begin) >= 0
        /\ sres.shape >= 1
        /\ Val(sres.begin) + sres.shape <= size

C9_Witness ==
    /\ sres # NotCalled /\ UnitStep /\ sres.shape >= 1
    /\ s.start # None /\ Val(s.start) < 0
    /\ s.stop # None /\ Val(s.stop) > size

-----------------------------------------------------------------------------
(* Dataset.index_to_roi, dataset.py 274-308 *)
type_msg == "Advanced selection inappropriate"

RoiRaised(e) == [exc |-> e, begin |-> <<>>, shape |-> <<>>]
NotResolved == [exc |-> NoExc, begin |-> <<>>, shape |-> <<>>]

\* the while loop of the ellipsis branch (302-303): start_shapes grows until
\* it and the rest entries after the ellipsis cover every dimension
RECURSIVE ellipsis_fill_same(_, _, _, _)
ellipsis_fill_same(start_shapes, d, rest, shp) ==
    IF Len(start_shapes) + rest < Len(shp)
    THEN ellipsis_fill_same(Append(start_shapes, Returned(Some(0), shp[d + 1])), d, rest, shp)
    ELSE start_shapes

RECURSIVE ellipsis_fill(_, _, _, _)
ellipsis_fill(start_shapes, d, rest, shp) ==
    IF Len(start_shapes) + rest < Len(shp)
    THEN ellipsis_fill(Append(start_shapes,
                              Returned(Some(0), shp[Len(start_shapes) + 1])),
                       d, rest, shp)
    ELSE start_shapes

\* the for loop (292-305), from entry p of index_lst on
RECURSIVE walk(_, _, _, _, _)
walk(index_lst, p, start_shapes, found_ellipsis, shp) ==
    IF p > Len(index_lst) THEN [exc |-> NoExc, pairs |-> start_shapes]
    ELSE
      LET it == index_lst[p]
          d == Len(start_shapes)
          dim_missing == [exc |-> Exc("IndexError", "tuple index out of range", <<>>),
                          pairs |-> <<>>]
      IN  IF it.k = "slice" THEN
              IF d + 1 > Len(shp) THEN dim_missing
              ELSE LET r == slice_to_begin_shape(it, shp[d + 1])
                   IN  IF r.exc # NoExc THEN [exc |-> r.exc, pairs |-> <<>>]
                       ELSE walk(index_lst, p + 1, Append(start_shapes, r),
                                 found_ellipsis, shp)
          ELSE IF it.k = "number" THEN
              IF d + 1 > Len(shp) THEN dim_missing
              ELSE LET r == int_to_begin_shape(Val(it.start), shp[d + 1])
                   IN  IF r.exc # NoExc THEN [exc |-> r.exc, pairs |-> <<>>]
                       ELSE walk(index_lst, p + 1, Append(start_shapes, r),
                                 found_ellipsis, shp)
          ELSE IF it.k = "ellipsis" THEN
              IF found_ellipsis
              THEN [exc |-> Exc("ValueError", "Only one ellipsis may be used", <<>>),
                    pairs |-> <<>>]
              ELSE walk(index_lst, p + 1,
                        ellipsis_fill(start_shapes, d, Len(index_lst) - d - 1, shp),
                        TRUE, shp)
          ELSE [exc |-> Exc("TypeError", type_msg, <<>>), pairs |-> <<>>]

index_to_roi(idx, shp) ==
    IF ~idx.tuple /\ idx.items[1].k = "other"
    THEN RoiRaised(Exc("TypeError", type_msg, <<>>))
    ELSE
      LET ndim == Len(shp)
          given == idx.items
      IN  IF Len(SelectSeq(given, LAMBDA e : e # Ellipsis)) > ndim
          THEN RoiRaised(Exc("TypeError", "Argument sequence too long", <<>>))
          ELSE
            LET index_lst ==
                    IF Len(given) < ndim /\ \A p \in 1..Len(given) : given[p] # Ellipsis
                    THEN Append(given, Ellipsis)
                    ELSE given
                w == walk(index_lst, 1, <<>>, FALSE, shp)
            IN  IF w.exc # NoExc THEN RoiRaised(w.exc)
                ELSE IF w.pairs = <<>>
                THEN RoiRaised(Exc("ValueError", "not enough values to unpack", <<>>))
                ELSE [exc |-> NoExc,
                      begin |-> [p \in 1..Len(w.pairs) |-> w.pairs[p].begin],
                      shape |-> [p \in 1..Len(w.pairs) |-> w.pairs[p].shape]]

HasZero(extents) == \E p \in 1..Len(extents) : extents[p] = 0

-----------------------------------------------------------------------------
(* The storage engine (_z5py): read_subarray, write_subarray, write_scalar.
   Its code is outside this file; a call is recorded with its arguments, may
   raise for its own reasons, and a write it accepts stores the value in the
   cells of the region that lie inside the dataset. *)
EngineCall(fn, begin, extents) == [fn |-> fn, begin |-> begin, shape |-> extents]
EngineError == Exc("RuntimeError", "engine", <<>>)

Cells(shp) == {c \in [1..Len(shp) -> 0..(MaxSize + 1)] : \A p \in 1..Len(shp) : c[p] < shp[p]}
Region(shp, begin, extents) ==
    {c \in Cells(shp) : \A p \in 1..Len(shp) :
        Val(begin[p]) <= c[p] /\ c[p] < Val(begin[p]) + extents[p]}

Raise(e) == [kind |-> "raise", extents |-> <<>>, exc |-> e]
Block(extents) == [kind |-> "block", extents |-> extents, exc |-> NoExc]
Element == [kind |-> "element", extents |-> <<>>, exc |-> NoExc]
ReturnNone == [kind |-> "return", extents |-> <<>>, exc |-> NoExc]
NoResult == [kind |-> "none", extents |-> <<>>, exc |-> NoExc]

(* Dataset.__getitem__, dataset.py 311-323; engine_ok: the engine call returns *)
getitem_noguard(idx, shp, engine_ok) ==
    LET r == index_to_roi(idx, shp)
    IN  IF r.exc # NoExc
        THEN [roi |-> r, engine |-> <<>>, result |-> Raise(r.exc)]
        ELSE [roi |-> r,
              engine |-> <<EngineCall("read_subarray", r.begin, r.shape)>>,
              result |-> IF ~engine_ok THEN Raise(EngineError) ELSE Block(r.shape)]

getitem(idx, shp, engine_ok) ==
    LET r == index_to_roi(idx, shp)
    IN  IF r.exc # NoExc
        THEN [roi |-> r, engine |-> <<>>, result |-> Raise(r.exc)]
        ELSE IF HasZero(r.shape)
        THEN [roi |-> r, engine |-> <<>>, result |-> Block(r.shape)]
        ELSE [roi |-> r,
              engine |-> <<EngineCall("read_subarray", r.begin, r.shape)>>,
              result |->
                 IF ~engine_ok THEN Raise(EngineError)
                 \* len(index) raises TypeError for an index that is no tuple,
                 \* and the except clause falls through to return out
                 ELSE IF idx.tuple
                         /\ Len(idx.items) = Len(shp)
                         /\ \A p \in 1..Len(idx.items) : idx.items[p].k = "number"
                 THEN Element
                 ELSE Block(r.shape)]

(* Dataset.__setitem__, dataset.py 326-343 *)
setitem(idx, it, shp, cont, engine_ok) ==
    IF it.k \notin {"number", "ndarray"}
    THEN [roi |-> NotResolved, engine |-> <<>>, contents |-> cont,
          result |-> Raise(Exc("ValueError", "Invalid item", <<>>))]
    ELSE
      LET r == index_to_roi(idx, shp)
      IN  IF r.exc # NoExc
          THEN [roi |-> r, engine |-> <<>>, contents |-> cont, result |-> Raise(r.exc)]
          ELSE IF HasZero(r.shape)
          THEN [roi |-> r, engine |-> <<>>, contents |-> cont, result |-> ReturnNone]
          ELSE IF it.k = "ndarray"
          THEN IF it.ndim # Len(shp)
               THEN [roi |-> r, engine |-> <<>>, contents |-> cont,
                     result |-> Raise(Exc("ValueError",
                                          "Complicated broadcasting is not supported", <<>>))]
               ELSE [roi |-> r,
                     engine |-> <<EngineCall("write_subarray", r.begin, r.shape)>>,
                     contents |-> IF engine_ok THEN cont \cup Region(shp, r.begin, r.shape)
                                  ELSE cont,
                     result |-> IF engine_ok THEN ReturnNone ELSE Raise(EngineError)]
          ELSE [roi |-> r,
                engine |-> <<EngineCall("write_scalar", r.begin, r.shape)>>,
                contents |-> IF engine_ok THEN cont \cup Region(shp, r.begin, r.shape)
                             ELSE cont,
                result |-> IF engine_ok THEN ReturnNone ELSE Raise(EngineError)]

-----------------------------------------------------------------------------
(* The inputs of an access: a dataset shape and an index expression. *)
Shapes == UNION {[1..n -> Sizes] : n \in 1..MaxDim}

Entries ==
    {number(v) : v \in {-K, -1, 0, 1, K}}
    \cup {slice(None, None, None), slice(None, None, Some(2)),
          slice(Some(K), None, None), slice(Some(-1), Some(K), Some(1))}
    \cup {Ellipsis, Other}

Indexes(ndim) ==
    {[tuple |-> FALSE, items |-> <<e>>] : e \in Entries}
    \cup {[tuple |-> TRUE, items |-> t] : t \in UNION {[1..m -> Entries] : m \in 0..(ndim + 1)}}

Items == {[k |-> "number", ndim |-> 0], [k |-> "other", ndim |-> 0]}
         \cup {[k |-> "ndarray", ndim |-> n] : n \in 1..MaxDim}

InitAccess ==
    /\ shape \in Shapes
    /\ index \in Indexes(Len(shape))
    /\ item = [k |-> "other", ndim |-> 0]
    /\ pc = "ready"
    /\ roi = NotResolved
    /\ engine = <<>>
    /\ result = NoResult
    /\ contents = {}
    /\ SliceIdle
    /\ CreateIdle

GetItem ==
    /\ pc = "ready"
    /\ \E engine_ok \in BOOLEAN :
         LET out == getitem(index, shape, engine_ok)
         IN  /\ roi' = out.roi
             /\ engine' = out.engine
             /\ result' = out.result
    /\ pc' = "got"
    /\ UNCHANGED <<shape, index, item, contents>>
    /\ UNCHANGED sliceVars
    /\ UNCHANGED createVars

SetItem ==
    /\ pc = "ready"
    /\ \E it \in Items, engine_ok \in BOOLEAN :
         LET out == setitem(index, it, shape, contents, engine_ok)
         IN  /\ item' = it
             /\ roi' = out.roi
             /\ engine' = out.engine
             /\ result' = out.result
             /\ contents' = out.contents
    /\ pc' = "set"
    /\ UNCHANGED <<shape, index>>
    /\ UNCHANGED sliceVars
    /\ UNCHANGED createVars

NextAccess == GetItem \/ SetItem

SpecAccess == InitAccess /\ [][NextAccess]_vars

-----------------------------------------------------------------------------
Resolved == roi # NotResolved
ResolvedOk == Resolved /\ roi.exc = NoExc

\* C1: every dimension of a ROI that index_to_roi returned is empty or lies
\* inside the dataset: begin >= 0, extent >= 1, begin + extent <= Shape[d].
C1_RoiInBounds ==
    ResolvedOk =>
        \A p \in 1..Len(roi.shape) :
            \/ roi.shape[p] = 0
            \/ /\ roi.begin[p] # None
               /\ Val(roi.begin[p]) >= 0
               /\ roi.shape[p] >= 1
               /\ Val(roi.begin[p]) + roi.shape[p] <= shape[p]

\* the index tuple with its ellipsis (written, or implied by a tuple shorter
\* than ndim) replaced by the run of full-range slices it stands for
FullSlices(k) == [p \in 1..k |-> slice(None, None, None)]
EllipsisAt == {p \in 1..Len(index.items) : index.items[p] = Ellipsis}
PlainEntries == Len(SelectSeq(index.items, LAMBDA e : e # Ellipsis))
Shortened ==
    /\ index.tuple
    /\ \A p \in 1..Len(index.items) : index.items[p].k \in {"number", "slice", "ellipsis"}
    /\ PlainEntries <= Len(shape)
    /\ \/ Cardinality(EllipsisAt) = 1
       \/ EllipsisAt = {} /\ Len(index.items) < Len(shape)
ExplicitIndex ==
    LET run == FullSlices(Len(shape) - PlainEntries)
        at == IF EllipsisAt = {} THEN Len(index.items) + 1
              ELSE CHOOSE p \in EllipsisAt : TRUE
    IN  [tuple |-> TRUE,
         items |-> SubSeq(index.items, 1, at - 1) \o run
                   \o SubSeq(index.items, at + 1, Len(index.items))]

\* C4: an index tuple whose ellipsis (written at the front, in the middle or
\* at the end, or left out after the last entry) stands for a run of full-range
\* slices resolves to the same ROI, or raises the same error, as the explicit
\* tuple of ndim entries.
C4_EllipsisEquivalence ==
    (Resolved /\ Shortened) => roi = index_to_roi(ExplicitIndex, shape)

C4_Witness ==
    /\ ResolvedOk /\ Shortened
    /\ Len(shape) = 2 /\ shape[1] # shape[2]
    /\ Len(index.items) = 2
    /\ index.items[1] = Ellipsis
    /\ index.items[2].k = "number"

\* an index expression of exactly ndim entries, all of them scalars; a bare
\* scalar counts as a one-entry expression
AllScalars ==
    /\ Len(index.items) = Len(shape)
    /\ \A p \in 1..Len(index.items) : index.items[p].k = "number"

\* C5: __getitem__ returns the single element when the index has exactly ndim
\* entries, all scalars (a bare scalar on a 1-D dataset included), and a block
\* with the ROI's extents for every other index it resolves.
C5_SqueezeRule ==
    (pc = "got" /\ result.kind \in {"element", "block"}) =>
        IF AllScalars THEN result = Element ELSE result = Block(roi.shape)

\* C10: an access calls the engine at most once, and only with a ROI that
\* index_to_roi returned without error and without a zero extent and whose
\* begin holds no None; when resolution raises or the ROI is empty the engine
\* is not called and the contents stay as they were.
C10_EngineAfterResolution ==
    /\ Len(engine) <= 1
    /\ engine # <<>> =>
          /\ ResolvedOk
          /\ ~HasZero(roi.shape)
          /\ engine[1].begin = roi.begin
          /\ \A p \in 1..Len(engine[1].begin) : engine[1].begin[p] # None
    /\ (pc # "ready" /\ (~ResolvedOk \/ HasZero(roi.shape))) =>
          /\ engine = <<>>
          /\ contents = {}

C10_Witness ==
    /\ pc = "got"
    /\ ResolvedOk /\ HasZero(roi.shape)
    /\ \E p \in 1..Len(roi.begin) : roi.begin[p] = None
    /\ engine = <<>> /\ result = Block(roi.shape)

-----------------------------------------------------------------------------
(* Class tables of Dataset, dataset.py 50-78 *)
dtype_dict ==
    [d \in {"uint8", "uint16", "uint32", "uint64", "int8", "int16", "int32", "int64",
            "float32", "float64"} |-> d]
zarr_dtype_dict ==
    ("uint8" :> "<u1") @@ ("uint16" :> "<u2") @@ ("uint32" :> "<u4") @@ ("uint64" :> "<u8")
    @@ ("int8" :> "<i1") @@ ("int16" :> "<i2") @@ ("int32" :> "<i4") @@ ("int64" :> "<i8")
    @@ ("float32" :> "<f4") @@ ("float64" :> "<f8")
compressors_zarr == {"raw", "blosc", "zlib", "bzip2"}
compressors_n5 == {"raw", "gzip", "bzip2"}
zarr_default_compressor == "blosc"
n5_default_compressor == "gzip"

(* JSON and Python dictionaries. A JSON object is a record; null is JsonNull.
   The dictionaries the decoders return and the compression_options argument
   have a fixed set of possible keys; an absent key holds None. *)
JsonNull == [null |-> TRUE]
Dict(compression, level, shuffle, codec) ==
    [compression |-> compression, level |-> level, shuffle |-> shuffle, codec |-> codec]
EmptyDict == Dict(None, None, None, None)
Options(level, codec, shuffle) == [level |-> level, codec |-> codec, shuffle |-> shuffle]
\* dict.get(key, default)
get(o, default) == IF o = None THEN default ELSE Val(o)
KeyError(key) == Exc("KeyError", key, <<>>)
StrIndexError == Exc("TypeError", "string indices must be integers", <<>>)

RECURSIVE Reverse(_)
Reverse(q) == IF q = <<>> THEN <<>> ELSE Append(Reverse(Tail(q)), Head(q))

(* Dataset._to_zarr_compression_options, dataset.py 85-103 *)
to_zarr_compression_options(compression, compression_options) ==
    IF compression = "blosc"
    THEN [exc |-> NoExc,
          opts |-> [id |-> "blosc",
                    cname |-> get(compression_options.codec, "lz4"),
                    clevel |-> get(compression_options.level, 5),
                    shuffle |-> get(compression_options.shuffle, 1)]]
    ELSE IF compression = "zlib"
    THEN [exc |-> NoExc,
          opts |-> [id |-> "zlib", level |-> get(compression_options.level, 5)]]
    ELSE IF compression = "bzip2"
    THEN [exc |-> NoExc,
          opts |-> [id |-> "bzip2", level |-> get(compression_options.level, 5)]]
    ELSE IF compression = "raw"
    THEN [exc |-> NoExc, opts |-> JsonNull]
    ELSE [exc |-> Exc("RuntimeError", "Compression is not supported in zarr format",
                      <<compression>>),
          opts |-> JsonNull]

(* Dataset._read_zarr_compression_options, dataset.py 105-122;
   zarr_opts is the whole .zarray document *)
read_zarr_compression_options(zarr_opts) ==
    IF zarr_opts = JsonNull
    THEN [exc |-> NoExc, opts |-> Dict(Some("raw"), None, None, None)]
    ELSE IF "id" \notin DOMAIN zarr_opts THEN [exc |-> KeyError("id"), opts |-> EmptyDict]
    ELSE IF zarr_opts.id = "blosc"
    THEN IF "clevel" \notin DOMAIN zarr_opts
         THEN [exc |-> KeyError("clevel"), opts |-> EmptyDict]
         ELSE IF "shuffle" \notin DOMAIN zarr_opts
         THEN [exc |-> KeyError("shuffle"), opts |-> EmptyDict]
         ELSE IF "cname" \notin DOMAIN zarr_opts
         THEN [exc |-> KeyError("cname"), opts |-> EmptyDict]
         ELSE [exc |-> NoExc,
               opts |-> Dict(Some("blosc"), Some(zarr_opts.clevel),
                             Some(zarr_opts.shuffle), Some(zarr_opts.cname))]
    ELSE IF zarr_opts.id \in {"zlib", "bzip2"}
    THEN IF "level" \notin DOMAIN zarr_opts
         THEN [exc |-> KeyError("level"), opts |-> EmptyDict]
         ELSE [exc |-> NoExc,
               opts |-> Dict(Some(zarr_opts.id), Some(zarr_opts.level), None, None)]
    ELSE [exc |-> NoExc, opts |-> EmptyDict]

(* Dataset._to_n5_compression_options, dataset.py 124-143 *)
to_n5_compression_options(compression, compression_options) ==
    IF compression = "gzip"
    THEN [exc |-> NoExc,
          opts |-> [type |-> "gzip", level |-> get(compression_options.level, 5)]]
    ELSE IF compression = "bzip2"
    THEN [exc |-> NoExc,
          opts |-> [type |-> "bzip2", blockSize |-> get(compression_options.level, 5)]]
    ELSE IF compression = "raw"
    THEN [exc |-> NoExc, opts |-> [type |-> "raw"]]
    ELSE [exc |-> Exc("RuntimeError", "Compression is not supported in n5 format",
                      <<compression>>),
          opts |-> JsonNull]

(* Dataset._read_n5_compression_options, dataset.py 145-172 *)
read_n5_compression_options(n5_opts) ==
    LET new_compression == "compressionType" \notin DOMAIN n5_opts
    IN  IF new_compression /\ "compression" \notin DOMAIN n5_opts
        THEN [exc |-> KeyError("compression"), opts |-> EmptyDict]
        ELSE IF new_compression /\ "type" \notin DOMAIN n5_opts.compression
        THEN [exc |-> KeyError("type"), opts |-> EmptyDict]
        ELSE
          LET ctype == IF new_compression THEN n5_opts.compression.type
                       ELSE n5_opts.compressionType
          IN  IF ctype = "raw"
              THEN [exc |-> NoExc, opts |-> Dict(Some("raw"), None, None, None)]
              ELSE IF ctype = "gzip"
              THEN IF ~new_compression
                   THEN [exc |-> NoExc, opts |-> Dict(Some("gzip"), Some(5), None, None)]
                   ELSE IF "level" \notin DOMAIN n5_opts.compression
                   THEN [exc |-> KeyError("level"), opts |-> EmptyDict]
                   ELSE [exc |-> NoExc,
                         opts |-> Dict(Some("gzip"), Some(n5_opts.compression.level),
                                       None, None)]
              \* line 163 subscripts the string ctype with 'compression'
              ELSE [exc |-> StrIndexError, opts |-> EmptyDict]

-----------------------------------------------------------------------------
(* The file system: for every path, whether the directory exists and the
   sidecar file in it (its name and its JSON document). *)
Absent == [dir |-> FALSE, name |-> "", doc |-> JsonNull]
Directory == [dir |-> TRUE, name |-> "", doc |-> JsonNull]
File(name, doc) == [dir |-> TRUE, name |-> name, doc |-> doc]
HasSidecar(f) == f.name # ""

(* Dataset._create_dataset_zarr, dataset.py 174-186 *)
create_dataset_zarr(path, dtype, shp, chunks, compression, compression_options, fill_value, files) ==
    LET made == [files EXCEPT ![path] = Directory]
        compressor == to_zarr_compression_options(compression, compression_options)
    IN  IF dtype \notin DOMAIN zarr_dtype_dict
        THEN [fs |-> made, exc |-> KeyError(dtype)]
        ELSE IF compressor.exc # NoExc
        THEN [fs |-> made, exc |-> compressor.exc]
        ELSE [fs |-> [files EXCEPT ![path] =
                         File(".zarray",
                              [dtype |-> zarr_dtype_dict[dtype],
                               shape |-> shp,
                               chunks |-> chunks,
                               fill_value |-> fill_value,
                               compressor |-> compressor.opts])],
              exc |-> NoExc]

(* Dataset._create_dataset_n5, dataset.py 188-198 *)
create_dataset_n5(path, dtype, shp, chunks, compression, compression_options, files) ==
    LET made == [files EXCEPT ![path] = Directory]
        compressor == to_n5_compression_options(compression, compression_options)
    IN  IF dtype \notin DOMAIN dtype_dict
        THEN [fs |-> made, exc |-> KeyError(dtype)]
        ELSE IF compressor.exc # NoExc
        THEN [fs |-> made, exc |-> compressor.exc]
        ELSE [fs |-> [files EXCEPT ![path] =
                         File("attributes.json",
                              [dataType |-> dtype_dict[dtype],
                               dimensions |-> Reverse(shp),
                               blockSize |-> Reverse(chunks),
                               compression |-> compressor.opts])],
              exc |-> NoExc]

(* Dataset.create_dataset, dataset.py 200-224 *)
\* lines 207-210
default_compression_kept(is_zarr, compression) == compression

default_compression(is_zarr, compression) ==
    IF is_zarr /\ compression \notin compressors_zarr THEN zarr_default_compressor
    ELSE IF ~is_zarr /\ compression \notin compressors_n5 THEN n5_default_compressor
    ELSE compression

\* lines 215 and 220
dtype_supported_any(is_zarr, parsed_dtype) == TRUE

dtype_supported(is_zarr, parsed_dtype) ==
    IF is_zarr THEN parsed_dtype \in DOMAIN zarr_dtype_dict
    ELSE parsed_dtype \in DOMAIN dtype_dict

create_dataset(path, dtype, shp, chunks, is_zarr, compression, compression_options, fill_value, files) ==
    IF files[path].dir
    THEN [fs |-> files, exc |-> Exc("RuntimeError", "Cannot create existing dataset", <<>>)]
    ELSE
      LET substituted == default_compression(is_zarr, compression)
      IN  IF ~dtype_supported(is_zarr, dtype)
          THEN [fs |-> files,
                exc |-> Exc("ValueError",
                            IF is_zarr THEN "Invalid data type for zarr dataset"
                            ELSE "Invalid data type for N5 dataset",
                            <<dtype>>)]
          ELSE IF is_zarr
          THEN create_dataset_zarr(path, dtype, shp, chunks, substituted,
                                   compression_options, fill_value, files)
          ELSE create_dataset_n5(path, dtype, shp, chunks, substituted,
                                 compression_options, files)

(* Dataset.compression_options, dataset.py 266-269; the engine reports a
   dataset as zarr when its sidecar is .zarray *)
compression_options(f) ==
    IF f.name = ".zarray" THEN read_zarr_compression_options(f.doc)
    ELSE read_n5_compression_options(f.doc)

-----------------------------------------------------------------------------
(* The inputs of creation. *)
Paths == {"a", "b"}
Dtypes == {"int16", "complex64"}
Levels == 1..MaxLevel
OptLevels == {None} \cup {Some(l) : l \in Levels}
Codecs == {"zstd"}
Shuffles == {0, 2}
NoOptions == Options(None, None, None)
\* a compression name with an options dictionary holding none, the level, or
\* all of that algorithm's parameters; lz4raw is no compressor of either dialect
CompressionArgs ==
    {<<"raw", NoOptions>>}
    \cup {<<c, Options(l, None, None)>> :
             c \in {"blosc", "zlib", "bzip2", "gzip", "lz4raw"}, l \in OptLevels}
    \cup {<<"blosc", Options(Some(l), Some(c), Some(sh))>> :
             l \in Levels, c \in Codecs, sh \in Shuffles}
ShapeArg == <<2, 3>>
ChunksArg == <<1, 3>>

\* attributes.json documents of the old N5 compression scheme, some of them
\* carrying a compression object as well
LegacyDocs ==
    LET base(ct) == [dataType |-> "int16", dimensions |-> Reverse(ShapeArg),
                     blockSize |-> Reverse(ChunksArg), compressionType |-> ct]
    IN  {base(ct) : ct \in compressors_n5}
        \cup {base(ct) @@ [compression |-> [type |-> "gzip", level |-> l]] :
                 ct \in compressors_n5, l \in Levels}
        \cup {base(ct) @@ [compression |-> [type |-> "bzip2", blockSize |-> l]] :
                 ct \in compressors_n5, l \in Levels}

NoCall == [made |-> FALSE, is_zarr |-> FALSE, compression |-> "", options |-> NoOptions]
Call(is_zarr, compression, options) ==
    [made |-> TRUE, is_zarr |-> is_zarr, compression |-> compression, options |-> options]
Outcome(op, path, dtype, exc, opts) ==
    [op |-> op, path |-> path, dtype |-> dtype, exc |-> exc, opts |-> opts]

InitCreate ==
    /\ fs = [p \in Paths |-> Absent]
    /\ requested = [p \in Paths |-> NoCall]
    /\ last = Outcome("none", "", "", NoExc, EmptyDict)
    /\ SliceIdle
    /\ AccessIdle

\* a create_dataset call; requested keeps the arguments of the call that met
\* a free path and a supported dtype
CreateDataset ==
    /\ \E path \in Paths, dtype \in Dtypes, is_zarr \in BOOLEAN, args \in CompressionArgs :
         LET out == create_dataset(path, dtype, ShapeArg, ChunksArg, is_zarr,
                                   args[1], args[2], 0, fs)
         IN  /\ fs' = out.fs
             /\ last' = Outcome("create", path, dtype, out.exc, EmptyDict)
             /\ requested' =
                   IF ~fs[path].dir
                      /\ dtype \in DOMAIN (IF is_zarr THEN zarr_dtype_dict ELSE dtype_dict)
                   THEN [requested EXCEPT ![path] = Call(is_zarr, args[1], args[2])]
                   ELSE requested
    /\ UNCHANGED sliceVars
    /\ UNCHANGED accessVars

\* reading Dataset.compression_options of an existing dataset
ReadCompressionOptions ==
    /\ \E path \in Paths :
         /\ HasSidecar(fs[path])
         /\ LET out == compression_options(fs[path])
            IN  last' = Outcome("read", path, "", out.exc, out.opts)
    /\ UNCHANGED <<fs, requested>>
    /\ UNCHANGED sliceVars
    /\ UNCHANGED accessVars

\* an N5 dataset written under the old compression scheme appears at a free path
LegacyDataset ==
    /\ \E path \in Paths, doc \in LegacyDocs :
         /\ ~fs[path].dir
         /\ fs' = [fs EXCEPT ![path] = File("attributes.json", doc)]
         /\ last' = Outcome("legacy", path, "", NoExc, EmptyDict)
    /\ UNCHANGED requested
    /\ UNCHANGED sliceVars
    /\ UNCHANGED accessVars

NextCreate == CreateDataset \/ ReadCompressionOptions \/ LegacyDataset

SpecCreate == InitCreate /\ [][NextCreate]_vars

-----------------------------------------------------------------------------
Supported(is_zarr) == IF is_zarr THEN compressors_zarr ELSE compressors_n5
Default(is_zarr) == IF is_zarr THEN zarr_default_compressor ELSE n5_default_compressor

\* the algorithm a sidecar written by create_dataset names
Algorithm(f) ==
    IF f.name = ".zarray"
    THEN IF f.doc.compressor = JsonNull THEN "raw" ELSE f.doc.compressor.id
    ELSE f.doc.compression.type

\* the call gives every parameter of its algorithm
FullDescriptor(call) ==
    /\ call.compression \in {"zlib", "bzip2", "gzip", "blosc"} => call.options.level # None
    /\ call.compression = "blosc" =>
          call.options.codec # None /\ call.options.shuffle # None
DescriptorOf(call) ==
    Dict(Some(call.compression), call.options.level, call.options.shuffle,
         call.options.codec)

\* C2: reading compression_options of a dataset that create_dataset wrote with
\* a descriptor of its dialect returns, without raising, that descriptor.
C2_CompressionRoundTrip ==
    (/\ last.op = "read"
     /\ requested[last.path].made
     /\ requested[last.path].compression \in Supported(requested[last.path].is_zarr)
     /\ FullDescriptor(requested[last.path]))
    => /\ last.exc = NoExc
       /\ last.opts = DescriptorOf(requested[last.path])

EncoderError(e) ==
    /\ e.type = "RuntimeError"
    /\ e.msg \in {"Compression is not supported in zarr format",
                  "Compression is not supported in n5 format"}

\* C6: a create_dataset call on a free path with a supported dtype writes a
\* sidecar naming an algorithm of its dialect, the dialect default when the
\* requested name is not supported; the encoders' not-supported error never
\* comes out of create_dataset.
C6_DefaultSubstitution ==
    /\ ~EncoderError(last.exc)
    /\ \A p \in Paths :
          requested[p].made =>
              /\ HasSidecar(fs[p])
              /\ Algorithm(fs[p]) \in Supported(requested[p].is_zarr)
              /\ requested[p].compression \notin Supported(requested[p].is_zarr)
                    => Algorithm(fs[p]) = Default(requested[p].is_zarr)

C6_Witness ==
    /\ last.op = "create" /\ last.exc = NoExc
    /\ requested[last.path].made
    /\ requested[last.path].is_zarr
    /\ requested[last.path].compression = "lz4raw"
    /\ fs[last.path].doc.compressor # JsonNull
    /\ fs[last.path].doc.compressor.id = "blosc"

\* C7: a create_dataset call on an existing path fails with the already-exists
\* error, one with a dtype outside the dialect's table with the invalid-dtype
\* error, and either leaves every directory and sidecar as it was.
C7_FailedCreateKeepsStorage ==
    [][last'.op = "create" =>
          /\ fs[last'.path].dir =>
                /\ last'.exc = Exc("RuntimeError", "Cannot create existing dataset", <<>>)
                /\ fs' = fs
          /\ (~fs[last'.path].dir /\ last'.dtype \notin DOMAIN dtype_dict) =>
                /\ last'.exc.type = "ValueError"
                /\ last'.exc.args = <<last'.dtype>>
                /\ fs' = fs]_vars

C7_Witness ==
    /\ last.op = "create"
    /\ last.exc = Exc("RuntimeError", "Cannot create existing dataset", <<>>)
    /\ requested[last.path].made
    /\ HasSidecar(fs[last.path])

\* C8: an N5 attributes.json with a top-level compressionType of raw, gzip or
\* bzip2 decodes to that algorithm, with level 5 for gzip and bzip2, whatever
\* else the file holds; without that key the nested compression object is
\* decoded, its level read from the file.
C8_LegacyDecoding ==
    (last.op = "read" /\ fs[last.path].name = "attributes.json") =>
        LET doc == fs[last.path].doc
        IN  /\ last.exc = NoExc
            /\ IF "compressionType" \in DOMAIN doc
               THEN last.opts = Dict(Some(doc.compressionType),
                                     IF doc.compressionType = "raw" THEN None ELSE Some(5),
                                     None, None)
               ELSE last.opts = Dict(Some(doc.compression.type),
                                     IF doc.compression.type = "gzip"
                                     THEN Some(doc.compression.level)
                                     ELSE IF doc.compression.type = "bzip2"
                                     THEN Some(doc.compression.blockSize)
                                     ELSE None,
                                     None, None)

====
